---- MODULE Spec2Model ----
(***************************************************************************)
(* State-machine model of the L'Oreal chat client (src/script.js).         *)
(*                                                                         *)
(* JavaScript values are tagged records, so that values of different       *)
(* JavaScript types can live in one array or one object.  A JavaScript     *)
(* string is a sequence of chunks: a chunk is either one whitespace        *)
(* character or a run of non-whitespace characters, which is all that      *)
(* String.prototype.trim distinguishes.  A JSON text is a sequence of      *)
(* tokens; JSON.stringify writes it and JSON.parse reads it back with a    *)
(* recursive-descent parser.  The DOM is modelled only as far as the       *)
(* loading bubble each submit handler keeps a reference to.                *)
(***************************************************************************)
EXTENDS Integers, Sequences, FiniteSets, TLC

(***************************************************************************)
(* Bounds of the model.                                                    *)
(***************************************************************************)
\* Submit is not taken once the transcript has this many entries.
MaxMessages == 3
\* Number of submit handlers started in one page session.
MaxRequests == 2

(***************************************************************************)
(* JavaScript values.                                                      *)
(***************************************************************************)
Undefined == [t |-> "undefined"]
Null == [t |-> "null"]
Bool(b) == [t |-> "boolean", b |-> b]
Num(n) == [t |-> "number", n |-> n]
Str(s) == [t |-> "string", s |-> s]
Arr(e) == [t |-> "array", e |-> e]
Obj(f) == [t |-> "object", f |-> f]

\* A function with no key: the object {} and the empty localStorage.
NoProps == [k \in {} |-> Undefined]

\* v.k for a value v that is neither null nor undefined.
Get(v, k) ==
  IF v.t = "object" /\ k \in DOMAIN v.f THEN v.f[k] ELSE Undefined

\* v?.k
OptGet(v, k) ==
  IF v.t \in {"undefined", "null"} THEN Undefined ELSE Get(v, k)

\* v?.[i], i counted from 0.  Indexing a string gives a one-character
\* string, modelled by its first chunk.
OptIdx(v, i) ==
  IF v.t = "array" /\ i + 1 <= Len(v.e) THEN v.e[i + 1]
  ELSE IF v.t = "string" /\ i + 1 <= Len(v.s) THEN Str(<<v.s[i + 1]>>)
  ELSE Undefined

\* ToBoolean(v), as used by !, && and ||.
Truthy(v) ==
  CASE v.t = "undefined" -> FALSE
    [] v.t = "null" -> FALSE
    [] v.t = "boolean" -> v.b
    [] v.t = "number" -> v.n # 0
    [] v.t = "string" -> v.s # <<>>
    [] OTHER -> TRUE

IsWhitespace(c) == c = " "

\* String.prototype.trim on a sequence of chunks.
RECURSIVE TrimStart(_)
TrimStart(s) ==
  IF s # <<>> /\ IsWhitespace(Head(s)) THEN TrimStart(Tail(s)) ELSE s

RECURSIVE TrimEnd(_)
TrimEnd(s) ==
  IF s # <<>> /\ IsWhitespace(s[Len(s)])
  THEN TrimEnd(SubSeq(s, 1, Len(s) - 1))
  ELSE s

Trim(s) == TrimEnd(TrimStart(s))

\* Array.prototype.filter
Filter(arr, Keep(_)) == SelectSeq(arr, Keep)

(***************************************************************************)
(* JSON texts.                                                             *)
(***************************************************************************)
Punct(p) == [tok |-> p]
StrTok(s) == [tok |-> "string", s |-> s]
NumTok(n) == [tok |-> "number", n |-> n]

\* The order in which JSON.stringify writes the keys of the objects this
\* program builds (insertion order of the object literals).
KeyOrder ==
  <<"role", "content", "timestamp", "messages", "model", "max_completion_tokens",
    "choices", "message", "error",
    "--text", "--assistant-bg", "--assistant-border", "--user-bg", "--user-text">>

\* Members that JSON.stringify writes: a key whose value is undefined is
\* left out.
WrittenKeys(f) ==
  Filter(KeyOrder, LAMBDA k : k \in DOMAIN f /\ f[k].t # "undefined")

RECURSIVE Stringify(_)
RECURSIVE StringifyElements(_)
RECURSIVE StringifyMembers(_, _)

\* JSON.stringify(v), for v that is not undefined.
Stringify(v) ==
  CASE v.t = "null" -> <<Punct("null")>>
    [] v.t = "boolean" -> <<Punct(IF v.b THEN "true" ELSE "false")>>
    [] v.t = "number" -> <<NumTok(v.n)>>
    [] v.t = "string" -> <<StrTok(v.s)>>
    [] v.t = "array" -> <<Punct("[")>> \o StringifyElements(v.e) \o <<Punct("]")>>
    [] v.t = "object" ->
         <<Punct("{")>> \o StringifyMembers(v.f, WrittenKeys(v.f)) \o <<Punct("}")>>

\* An undefined array element is written as null.
StringifyElements(e) ==
  IF e = <<>> THEN <<>>
  ELSE (IF Head(e).t = "undefined" THEN <<Punct("null")>> ELSE Stringify(Head(e)))
         \o (IF Tail(e) = <<>> THEN <<>> ELSE <<Punct(",")>>)
         \o StringifyElements(Tail(e))

StringifyMembers(f, keys) ==
  IF keys = <<>> THEN <<>>
  ELSE <<StrTok(<<Head(keys)>>), Punct(":")>> \o Stringify(f[Head(keys)])
         \o (IF Tail(keys) = <<>> THEN <<>> ELSE <<Punct(",")>>)
         \o StringifyMembers(f, Tail(keys))

\* Result of a parsing step: ok, the value read, the position of the next
\* token.
ParseFail == [ok |-> FALSE, v |-> Undefined, next |-> 0]
ParseOk(v, next) == [ok |-> TRUE, v |-> v, next |-> next]

\* The token at position i is p.
NextIs(toks, i, p) == i <= Len(toks) /\ toks[i].tok = p

RECURSIVE ParseValue(_, _)
RECURSIVE ParseElements(_, _, _)
RECURSIVE ParseMembers(_, _, _)

\* Reads one value from position i.
ParseValue(toks, i) ==
  IF i > Len(toks) THEN ParseFail
  ELSE LET h == toks[i]
       IN CASE h.tok = "null" -> ParseOk(Null, i + 1)
            [] h.tok = "true" -> ParseOk(Bool(TRUE), i + 1)
            [] h.tok = "false" -> ParseOk(Bool(FALSE), i + 1)
            [] h.tok = "number" -> ParseOk(Num(h.n), i + 1)
            [] h.tok = "string" -> ParseOk(Str(h.s), i + 1)
            [] h.tok = "[" ->
                 IF NextIs(toks, i + 1, "]") THEN ParseOk(Arr(<<>>), i + 2)
                 ELSE ParseElements(toks, i + 1, <<>>)
            [] h.tok = "{" ->
                 IF NextIs(toks, i + 1, "}") THEN ParseOk(Obj(NoProps), i + 2)
                 ELSE ParseMembers(toks, i + 1, NoProps)
            [] OTHER -> ParseFail

\* value ( "," value )* "]"
ParseElements(toks, i, acc) ==
  LET el == ParseValue(toks, i)
  IN IF ~el.ok THEN ParseFail
     ELSE IF NextIs(toks, el.next, "]") THEN ParseOk(Arr(Append(acc, el.v)), el.next + 1)
     ELSE IF NextIs(toks, el.next, ",") THEN ParseElements(toks, el.next + 1, Append(acc, el.v))
     ELSE ParseFail

\* string ":" value ( "," string ":" value )* "}" ; a repeated key keeps
\* its last value.  A key is a single chunk.
ParseMembers(toks, i, acc) ==
  IF ~(NextIs(toks, i, "string") /\ Len(toks[i].s) = 1 /\ NextIs(toks, i + 1, ":"))
  THEN ParseFail
  ELSE LET key == toks[i].s[1]
           el == ParseValue(toks, i + 2)
           f == (key :> el.v) @@ acc
       IN IF ~el.ok THEN ParseFail
          ELSE IF NextIs(toks, el.next, "}") THEN ParseOk(Obj(f), el.next + 1)
          ELSE IF NextIs(toks, el.next, ",") THEN ParseMembers(toks, el.next + 1, f)
          ELSE ParseFail

\* JSON.parse(text): threw is TRUE for a SyntaxError.
JsonParse(text) ==
  LET p == ParseValue(text, 1)
  IN IF p.ok /\ p.next = Len(text) + 1 THEN [threw |-> FALSE, v |-> p.v]
     ELSE [threw |-> TRUE, v |-> Undefined]

(***************************************************************************)
(* Constants of script.js.                                                 *)
(***************************************************************************)
\* The system prompt, abbreviated to its opening words.
systemPrompt == <<"You", " ", "are", " ", "a", " ", "helpful", " ", "assistant">>

STORAGE_KEY == "loreal_chat_history_v1"

WorkerUrlPlaceholder == <<"https://your-worker.example.workers.dev">>
ApiKeyPlaceholder == <<"REPLACE_WITH_YOUR_OPENAI_KEY">>
OpenAiUrl == <<"https://api.openai.com/v1/chat/completions">>
FallbackReply ==
  <<"Sorry,", " ", "I", " ", "could", " ", "not", " ", "get", " ", "an", " ", "answer.">>
ThinkingText == <<"Thinking...">>
ConfigMissingText == <<"Configuration", " ", "missing">>

\* { role: 'system', content: systemPrompt }
SystemMessage == Obj([role |-> Str(<<"system">>), content |-> Str(systemPrompt)])

(***************************************************************************)
(* Inputs of the environment.                                              *)
(***************************************************************************)
\* What the input field may hold when the form is submitted.
Inputs == { <<>>, <<" ">>, <<" ", "Hi", " ">> }

\* Values Date.now() returns, in units of the clock.
Timestamps == { 1 }

\* A real relay URL and a real key.
RealWorkerUrl == Str(<<"https://loreal-worker.sustaitah03.workers.dev/">>)
RealApiKey == Str(<<"sk-test">>)

\* Values of the globals WORKER_URL and OPENAI_API_KEY, each not defined,
\* empty, the placeholder of the template or a real value: the relay URL
\* set with and without a key, a key set beside each kind of unset relay
\* URL, and each kind of unset key beside an unset relay URL.
Configs ==
  { <<RealWorkerUrl, RealApiKey>>,
    <<RealWorkerUrl, Undefined>>,
    <<Undefined, RealApiKey>>,
    <<Str(WorkerUrlPlaceholder), RealApiKey>>,
    <<Str(<<>>), Undefined>>,
    <<Undefined, Str(<<>>)>>,
    <<Str(WorkerUrlPlaceholder), Str(ApiKeyPlaceholder)>> }

\* { choices: [ { message: { content: c } } ] }
Completion(c) == Obj([choices |-> Arr(<<Obj([message |-> Obj([content |-> c])])>>)])

\* Bodies of HTTP responses: completions with a text, an empty text and a
\* null content, objects without the field path, and a body that is not JSON.
ResponseBodies ==
  { Stringify(Completion(Str(<<"Use", " ", "X">>))),
    Stringify(Completion(Str(<<>>))),
    Stringify(Completion(Null)),
    Stringify(Obj([choices |-> Arr(<<>>)])),
    Stringify(Obj(NoProps)),
    <<Punct("<")>> }

\* What a fetch settles with: a rejection (network failure) or a response.
FetchOutcomes ==
  { [kind |-> "reject", message |-> <<"Failed", " ", "to", " ", "fetch">>] }
  \cup { [kind |-> "response", ok |-> FALSE, status |-> <<"500">>,
          statusText |-> <<"Internal", " ", "Server", " ", "Error">>, body |-> b]
         : b \in { Stringify(Obj(NoProps)) } }
  \cup { [kind |-> "response", ok |-> TRUE, status |-> <<"200">>,
          statusText |-> <<"OK">>, body |-> b] : b \in ResponseBodies }

(***************************************************************************)
(* State.                                                                  *)
(***************************************************************************)
VARIABLES
  messages,         \* the transcript: a sequence of message objects
  localStorage,     \* key -> stored text, for the keys that hold a value
  handlers,         \* the submit handlers started in this page session:
                    \* the fetch each is suspended on and its loadingBubble
  fetches,          \* the requests in flight, in the order they were issued
  WORKER_URL,       \* the global WORKER_URL (Undefined: not defined)
  OPENAI_API_KEY,   \* the global OPENAI_API_KEY (Undefined: not defined)
  scriptRunning,    \* FALSE when the page script stopped on an uncaught
                    \* error before it registered its listeners
  theme,            \* the data-theme attribute of the body
  rootStyle,        \* documentElement.style: custom property -> value set
  autoFix,          \* the call of autoFixContrast in progress: its position
                    \* and its local variables
  relay             \* the invocation of the Worker's fetch in progress: its
                    \* position, its request and environment, the call it
                    \* made upstream and its response

vars ==
  <<messages, localStorage, handlers, fetches, WORKER_URL,
    OPENAI_API_KEY, scriptRunning, theme, rootStyle, autoFix, relay>>

\* The variables of the chat, but for localStorage.
chatVars ==
  <<messages, handlers, fetches, WORKER_URL, OPENAI_API_KEY, scriptRunning>>

\* No call of autoFixContrast is in progress, no invocation of the Worker.
Idle == [pc |-> "idle"]

(***************************************************************************)
(* Conversation store.                                                     *)
(***************************************************************************)
\* localStorage.getItem(key): Null when the key holds no value.
GetItem(ls, key) == IF key \in DOMAIN ls THEN [t |-> "text", text |-> ls[key]] ELSE Null

\* localStorage.removeItem(key)
RemoveItem(ls, key) == [k \in DOMAIN ls \ {key} |-> ls[k]]

\* localStorage.setItem(key, text)
SetItem(ls, key, text) == (key :> text) @@ ls

\* loadHistory(): the value returned (Null or an array) and the storage
\* left behind.
loadHistory(ls) ==
  LET raw == GetItem(ls, STORAGE_KEY)
  IN IF raw.t = "null" \/ raw.text = <<>>
     THEN [result |-> Null, storage |-> ls]
     ELSE LET parsed == JsonParse(raw.text)
          IN IF parsed.threw
             THEN [result |-> Null, storage |-> RemoveItem(ls, STORAGE_KEY)]
             ELSE IF parsed.v.t # "array"
             THEN [result |-> Null, storage |-> ls]
             ELSE [result |-> parsed.v, storage |-> ls]

IsUserOrAssistant(m) ==
  Get(m, "role") = Str(<<"user">>) \/ Get(m, "role") = Str(<<"assistant">>)

\* toSave without the filter on the role.
toSave_KeepAll(msgs) == msgs

\* The messages saveHistory() writes for a transcript.
toSave(msgs) == Filter(msgs, IsUserOrAssistant)

\* saveHistory writing the whole transcript.
saveHistory_All(msgs, ls, writeOk) ==
  IF writeOk THEN SetItem(ls, STORAGE_KEY, Stringify(Arr(msgs))) ELSE ls

\* saveHistory run before the push: the last message is not written.
saveHistory_BeforePush(msgs, ls, writeOk) ==
  IF writeOk
  THEN SetItem(ls, STORAGE_KEY, Stringify(Arr(toSave(SubSeq(msgs, 1, Len(msgs) - 1)))))
  ELSE ls

\* saveHistory losing the stored history when setItem throws.
saveHistory_FailureClears(msgs, ls, writeOk) ==
  IF writeOk THEN SetItem(ls, STORAGE_KEY, Stringify(Arr(toSave(msgs))))
  ELSE RemoveItem(ls, STORAGE_KEY)

\* saveHistory(): the storage left behind; writeOk is FALSE when setItem
\* throws, which saveHistory catches.
saveHistory(msgs, ls, writeOk) ==
  IF writeOk THEN SetItem(ls, STORAGE_KEY, Stringify(Arr(toSave(msgs)))) ELSE ls

\* clearHistory without removeItem.
clearHistory_KeepStorage(ls) == [messages |-> <<SystemMessage>>, storage |-> ls]

\* clearHistory(): the transcript and the storage left behind.
clearHistory(ls) ==
  [messages |-> <<SystemMessage>>, storage |-> RemoveItem(ls, STORAGE_KEY)]

\* The restore block putting the system message after the restored ones.
Restore_SystemLast(ls) ==
  LET loaded == loadHistory(ls)
      restored == loaded.result
  IN IF restored.t = "array" /\ Len(restored.e) > 0
     THEN [messages |-> restored.e \o <<SystemMessage>>,
           storage |-> loaded.storage,
           threw |-> \E i \in 1..Len(restored.e) : restored.e[i].t = "null"]
     ELSE [messages |-> <<SystemMessage>>,
           storage |-> loaded.storage,
           threw |-> FALSE]

\* The restore block at page load: the transcript, the storage left behind
\* and whether the script got past it.  Reading m.role of a null element
\* throws a TypeError that nothing catches.
Restore(ls) ==
  LET loaded == loadHistory(ls)
      restored == loaded.result
  IN IF restored.t = "array" /\ Len(restored.e) > 0
     THEN [messages |-> <<SystemMessage>> \o restored.e,
           storage |-> loaded.storage,
           threw |-> \E i \in 1..Len(restored.e) : restored.e[i].t = "null"]
     ELSE [messages |-> <<SystemMessage>>,
           storage |-> loaded.storage,
           threw |-> FALSE]

(***************************************************************************)
(* Submit handler.                                                         *)
(***************************************************************************)
\* The payload made of the messages as they are.
apiMessages_Whole(msgs) == msgs

\* messages.map(m => ({ role: m.role, content: m.content }))
apiMessages(msgs) ==
  [i \in 1..Len(msgs) |->
     Obj([role |-> Get(msgs[i], "role"), content |-> Get(msgs[i], "content")])]

\* The test of a global without the comparison with the placeholder.
Configured_NoPlaceholderCheck(x, placeholder) == x.t # "undefined" /\ Truthy(x)

\* typeof X !== 'undefined' && X && X !== placeholder
Configured(x, placeholder) ==
  x.t # "undefined" /\ Truthy(x) /\ x # Str(placeholder)

\* The branch the handler takes.
Endpoint ==
  IF Configured(WORKER_URL, WorkerUrlPlaceholder) THEN "relay"
  ELSE IF Configured(OPENAI_API_KEY, ApiKeyPlaceholder) THEN "direct"
  ELSE "none"

\* The fetch call of a branch.
Request(endpoint, id, msgs) ==
  IF endpoint = "relay"
  THEN [handler |-> id, url |-> WORKER_URL.s, method |-> "POST",
        authorization |-> <<>>,
        body |-> Stringify(Obj([messages |-> Arr(msgs)]))]
  ELSE [handler |-> id, url |-> OpenAiUrl, method |-> "POST",
        authorization |-> <<"Bearer", " ">> \o OPENAI_API_KEY.s,
        body |-> Stringify(Obj([model |-> Str(<<"gpt-4o">>), messages |-> Arr(msgs)]))]

\* The reply with ?? in place of ||.
ReplyOf_Nullish(data) ==
  LET content == OptGet(OptGet(OptIdx(OptGet(data, "choices"), 0), "message"), "content")
  IN IF content.t \notin {"undefined", "null"} THEN content ELSE Str(FallbackReply)

\* data?.choices?.[0]?.message?.content || 'Sorry, I could not get an answer.'
ReplyOf(data) ==
  LET content == OptGet(OptGet(OptIdx(OptGet(data, "choices"), 0), "message"), "content")
  IN IF Truthy(content) THEN content ELSE Str(FallbackReply)

\* The message of the Error thrown for a response that is not ok.
StatusError(endpoint, res) ==
  <<(IF endpoint = "relay" THEN "Worker" ELSE "OpenAI"), " ", "error:", " ">>
    \o res.status \o <<" ">> \o res.statusText

\* The awaited part of a branch without the test of res.ok.
Settle_IgnoresStatus(endpoint, outcome) ==
  IF outcome.kind = "reject"
  THEN [threw |-> TRUE, message |-> outcome.message, reply |-> Undefined]
  ELSE LET data == JsonParse(outcome.body)
       IN IF data.threw
          THEN [threw |-> TRUE, message |-> <<"Unexpected", " ", "token">>,
                reply |-> Undefined]
          ELSE [threw |-> FALSE, message |-> <<>>, reply |-> ReplyOf(data.v)]

\* What the awaited part of a branch comes to: a reply to append, or the
\* message of the error the catch block receives.
Settle(endpoint, outcome) ==
  IF outcome.kind = "reject"
  THEN [threw |-> TRUE, message |-> outcome.message, reply |-> Undefined]
  ELSE IF ~outcome.ok
  THEN [threw |-> TRUE, message |-> StatusError(endpoint, outcome), reply |-> Undefined]
  ELSE LET data == JsonParse(outcome.body)
       IN IF data.threw
          THEN [threw |-> TRUE, message |-> <<"Unexpected", " ", "token">>,
                reply |-> Undefined]
          ELSE [threw |-> FALSE, message |-> <<>>, reply |-> ReplyOf(data.v)]

\* Settle for each branch that awaits and each outcome of its fetch.
Settled ==
  [endpoint \in {"relay", "direct"} |->
     [outcome \in FetchOutcomes |-> Settle(endpoint, outcome)]]

\* Settle, looked up for the outcomes of FetchOutcomes.
SettledOf(endpoint, outcome) ==
  IF outcome \in FetchOutcomes THEN Settled[endpoint][outcome]
  ELSE Settle(endpoint, outcome)

\* The catch block without classList.remove('loading').
ErrorBubble_StillLoading(message) ==
  [loading |-> TRUE,
   textContent |-> Str(<<"Error:", " ">> \o
                       (IF message # <<>> THEN message ELSE <<"Request", " ", "failed">>))]

\* The catch block: 'Error: ' + (err?.message || 'Request failed')
ErrorBubble(message) ==
  [loading |-> FALSE,
   textContent |-> Str(<<"Error:", " ">> \o
                       (IF message # <<>> THEN message ELSE <<"Request", " ", "failed">>))]

\* The bubble once the reply is written into it.
ReplyBubble(reply) == [loading |-> FALSE, textContent |-> reply]

\* The submit handler without the early return for blank input.
Submit_NoBlankTest(value, now, writeOk) ==
  /\ scriptRunning
  /\ Len(handlers) < MaxRequests
  /\ Len(messages) < MaxMessages
  /\ LET text == Trim(value)
         id == Len(handlers) + 1
         pushed == Append(messages,
                          Obj([role |-> Str(<<"user">>), content |-> Str(text),
                               timestamp |-> Num(now)]))
         payload == apiMessages(pushed)
     IN /\ messages' = pushed
        /\ localStorage' = saveHistory(pushed, localStorage, writeOk)
        /\ IF Endpoint = "none"
           THEN /\ handlers' =
                     Append(handlers,
                            [awaiting |-> "none",
                             loadingBubble |->
                               [loading |-> FALSE,
                                textContent |-> Str(ConfigMissingText)]])
                /\ fetches' = fetches
           ELSE /\ handlers' =
                     Append(handlers,
                            [awaiting |-> Endpoint,
                             loadingBubble |->
                               [loading |-> TRUE,
                                textContent |-> Str(ThinkingText)]])
                /\ fetches' = Append(fetches, Request(Endpoint, id, payload))
        /\ UNCHANGED <<WORKER_URL, OPENAI_API_KEY, scriptRunning,
                       theme, rootStyle, autoFix, relay>>

\* The submit handler up to its first await, or to its end when it does not
\* await: the early return for blank input, the user message, saveHistory,
\* the loading bubble, the payload and the choice of the endpoint.  value
\* is userInput.value, now the value of Date.now(), writeOk whether
\* localStorage.setItem succeeds.
Submit(value, now, writeOk) ==
  /\ scriptRunning
  /\ Len(handlers) < MaxRequests
  /\ Len(messages) < MaxMessages
  /\ LET text == Trim(value)
         id == Len(handlers) + 1
         pushed == Append(messages,
                          Obj([role |-> Str(<<"user">>), content |-> Str(text),
                               timestamp |-> Num(now)]))
         payload == apiMessages(pushed)
     IN IF text = <<>>
        THEN UNCHANGED vars
        ELSE /\ messages' = pushed
             /\ localStorage' = saveHistory(pushed, localStorage, writeOk)
             /\ IF Endpoint = "none"
                THEN /\ handlers' =
                          Append(handlers,
                                 [awaiting |-> "none",
                                  loadingBubble |->
                                    [loading |-> FALSE,
                                     textContent |-> Str(ConfigMissingText)]])
                     /\ fetches' = fetches
                ELSE /\ handlers' =
                          Append(handlers,
                                 [awaiting |-> Endpoint,
                                  loadingBubble |->
                                    [loading |-> TRUE,
                                     textContent |-> Str(ThinkingText)]])
                     /\ fetches' = Append(fetches, Request(Endpoint, id, payload))
             /\ UNCHANGED <<WORKER_URL, OPENAI_API_KEY, scriptRunning,
                            theme, rootStyle, autoFix, relay>>

\* The submit handler from its await to its end: the fetch of handler id
\* settles with outcome.
Receive(id, outcome, now, writeOk) ==
  /\ id \in 1..Len(handlers)
  /\ handlers[id].awaiting # "none"
  /\ LET h == handlers[id]
         settled == SettledOf(h.awaiting, outcome)
         pushed == Append(messages,
                          Obj([role |-> Str(<<"assistant">>), content |-> settled.reply,
                               timestamp |-> Num(now)]))
     IN IF settled.threw
        THEN /\ handlers' = [handlers EXCEPT ![id].awaiting = "none",
                                             ![id].loadingBubble = ErrorBubble(settled.message)]
             /\ UNCHANGED <<messages, localStorage>>
        ELSE /\ handlers' = [handlers EXCEPT ![id].awaiting = "none",
                                             ![id].loadingBubble = ReplyBubble(settled.reply)]
             /\ messages' = pushed
             /\ localStorage' = saveHistory(pushed, localStorage, writeOk)
  /\ fetches' = SelectSeq(fetches, LAMBDA r : r.handler # id)
  /\ UNCHANGED <<WORKER_URL, OPENAI_API_KEY, scriptRunning,
                 theme, rootStyle, autoFix, relay>>

(***************************************************************************)
(* Other events.                                                           *)
(***************************************************************************)
\* The click handler of the Clear button; ok is the answer to confirm().
ClickClear(ok) ==
  /\ scriptRunning
  /\ IF ok
     THEN /\ messages' = clearHistory(localStorage).messages
          /\ localStorage' = clearHistory(localStorage).storage
     ELSE UNCHANGED <<messages, localStorage>>
  /\ UNCHANGED <<handlers, fetches, WORKER_URL, OPENAI_API_KEY, scriptRunning,
                 theme, rootStyle, autoFix, relay>>

\* The state the page script leaves when it runs on storage ls: the
\* transcript restored, no handler, an empty input field.
PageLoad(ls) ==
  /\ messages = Restore(ls).messages
  /\ localStorage = Restore(ls).storage
  /\ scriptRunning = ~Restore(ls).threw
  /\ handlers = <<>>
  /\ fetches = <<>>

\* The page is loaded again: the handlers of the old page are gone with
\* their requests, the storage stays.
Reload ==
  /\ messages' = Restore(localStorage).messages
  /\ localStorage' = Restore(localStorage).storage
  /\ scriptRunning' = ~Restore(localStorage).threw
  /\ handlers' = <<>>
  /\ fetches' = <<>>
  /\ UNCHANGED <<WORKER_URL, OPENAI_API_KEY,
                 theme, rootStyle, autoFix, relay>>

(***************************************************************************)
(* Specifications.                                                         *)
(***************************************************************************)
\* First load of the page on storage that holds nothing.
Init ==
  /\ PageLoad(NoProps)
  /\ theme = "classic"
  /\ rootStyle = NoProps
  /\ autoFix = Idle
  /\ relay = Idle
  /\ \E config \in Configs :
       /\ WORKER_URL = config[1]
       /\ OPENAI_API_KEY = config[2]

Next ==
  \/ \E value \in Inputs, now \in Timestamps, writeOk \in BOOLEAN :
       Submit(value, now, writeOk)
  \/ \E id \in 1..MaxRequests, outcome \in FetchOutcomes, now \in Timestamps,
        writeOk \in BOOLEAN :
       Receive(id, outcome, now, writeOk)
  \/ \E ok \in BOOLEAN : ClickClear(ok)
  \/ Reload

Spec == Init /\ [][Next]_vars

\* Texts another script of the origin, or the user, may leave at the
\* history key: text that is not JSON, JSON that is not an array, and an
\* array holding null.
TamperedTexts ==
  { <<Punct("{")>>,
    Stringify(Obj(NoProps)),
    Stringify(Obj([role |-> Str(<<"user">>), content |-> Str(<<"Hi">>)])),
    Stringify(Arr(<<Null>>)) }

\* The history key is overwritten from outside, before the first submit of
\* the page session.
Tamper(text) ==
  /\ handlers = <<>>
  /\ localStorage' = SetItem(localStorage, STORAGE_KEY, text)
  /\ UNCHANGED <<messages, handlers, fetches, WORKER_URL, OPENAI_API_KEY, scriptRunning,
                 theme, rootStyle, autoFix, relay>>

NextCorrupt ==
  \/ Next
  \/ \E text \in TamperedTexts : Tamper(text)

SpecCorrupt == Init /\ [][NextCorrupt]_vars

(***************************************************************************)
(* Properties.                                                             *)
(***************************************************************************)
RoleOf(m) == IF m.t = "object" /\ "role" \in DOMAIN m.f THEN m.f.role ELSE Undefined

HasRole(m, r) == RoleOf(m) = Str(<<r>>)

\* The entries of a transcript after the first.
Rest(msgs) == SubSeq(msgs, 2, Len(msgs))

\* The history key holds the JSON text of exactly the array arr.
Stores(ls, arr) ==
  /\ STORAGE_KEY \in DOMAIN ls
  /\ LET parsed == JsonParse(ls[STORAGE_KEY])
     IN ~parsed.threw /\ parsed.v = Arr(arr)

\* C1: in every reachable state the first entry of messages is the fixed
\* system message and no other entry has role system.
C1_SystemFirstAndOnce ==
  /\ Len(messages) >= 1
  /\ messages[1] = SystemMessage
  /\ \A i \in 2..Len(messages) : ~HasRole(messages[i], "system")

\* A page session that started by restoring a saved conversation.
C1_Witness ==
  /\ handlers = <<>>
  /\ Len(messages) = 3
  /\ HasRole(messages[2], "user")
  /\ HasRole(messages[3], "assistant")
  /\ scriptRunning

\* C2: a step of clearHistory() leaves a transcript that is exactly the
\* system message and leaves no value at the history key.
C2_ClearResets ==
  [][ClickClear(TRUE) =>
       /\ messages' = <<SystemMessage>>
       /\ STORAGE_KEY \notin DOMAIN localStorage']_vars

\* The conversation was cleared after a submit of this page session.
C2_Witness ==
  /\ handlers # <<>>
  /\ messages = <<SystemMessage>>
  /\ STORAGE_KEY \notin DOMAIN localStorage

\* C3: when the history key holds the user and assistant messages of the
\* transcript as saved, loading the page again gives the system message
\* followed by those messages, in order, each with its role, content and
\* timestamp.
C3_RoundTrip ==
  [][(/\ Len(messages) >= 3
      /\ HasRole(messages[1], "system")
      /\ HasRole(messages[2], "user")
      /\ HasRole(messages[3], "assistant")
      /\ STORAGE_KEY \in DOMAIN localStorage
      /\ localStorage[STORAGE_KEY] = Stringify(Arr(Rest(messages)))
      /\ Reload)
     => messages' = messages]_vars

\* A new page session holds a user message and the reply to it, restored
\* with content and timestamp.
C3_Witness ==
  /\ handlers = <<>>
  /\ fetches = <<>>
  /\ messages = <<SystemMessage,
                  Obj([role |-> Str(<<"user">>), content |-> Str(<<"Hi">>),
                       timestamp |-> Num(1)]),
                  Obj([role |-> Str(<<"assistant">>),
                       content |-> Str(<<"Use", " ", "X">>),
                       timestamp |-> Num(1)])>>

\* A text that is not JSON, or JSON that is not an array.
IsCorrupt(text) == JsonParse(text).threw \/ JsonParse(text).v.t # "array"

\* C4: loading the page on a corrupt value at the history key does not
\* throw, removes the value and gives a transcript of the system message
\* only.
C4_CorruptPurged ==
  [][(/\ Reload
      /\ STORAGE_KEY \in DOMAIN localStorage
      /\ IsCorrupt(localStorage[STORAGE_KEY]))
     => (/\ scriptRunning'
         /\ messages' = <<SystemMessage>>
         /\ STORAGE_KEY \notin DOMAIN localStorage')]_vars

\* The user and assistant messages of a transcript, in order.
UserAndAssistant(msgs) ==
  SelectSeq(msgs, LAMBDA m : HasRole(m, "user") \/ HasRole(m, "assistant"))

\* A step that appends one message to the transcript.
Appends(role) ==
  /\ Len(messages') = Len(messages) + 1
  /\ SubSeq(messages', 1, Len(messages)) = messages
  /\ HasRole(messages'[Len(messages')], role)

\* The step is an append by the submit handler whose write to storage
\* succeeds.
AppendsAndWrites ==
  /\ localStorage' = saveHistory(messages', localStorage, TRUE)
  /\ \/ /\ Appends("user")
        /\ \E value \in Inputs, now \in Timestamps : Submit(value, now, TRUE)
     \/ /\ Appends("assistant")
        /\ \E id \in 1..Len(handlers), outcome \in FetchOutcomes, now \in Timestamps :
             /\ handlers'[id].awaiting # handlers[id].awaiting
             /\ Receive(id, outcome, now, TRUE)

\* The history key holds the user and assistant messages of the transcript,
\* in order, and not the system message.
StoredIsSubsequence(ls, msgs) ==
  /\ STORAGE_KEY \in DOMAIN ls
  /\ LET parsed == JsonParse(ls[STORAGE_KEY])
     IN /\ ~parsed.threw
        /\ parsed.v = Arr(UserAndAssistant(msgs))
        /\ \A i \in 1..Len(parsed.v.e) : ~HasRole(parsed.v.e[i], "system")

\* C5: after an append of a user message (submit) or of an assistant
\* message (reply) whose write to storage succeeds, the history key holds
\* the user and assistant messages of the transcript, in order, and not the
\* system message.
C5_StoredIsSubsequence ==
  [][\/ ~(Appends("user") \/ Appends("assistant"))
     \/ StoredIsSubsequence(localStorage', messages')
     \/ ~AppendsAndWrites]_vars

\* A reply was appended and stored after a user message.
C5_Witness ==
  /\ Len(messages) = 3
  /\ HasRole(messages[3], "assistant")
  /\ handlers # <<>>
  /\ Stores(localStorage, Rest(messages))

\* The fetch fails: it is rejected or its response is not ok.
Fails(outcome) == outcome.kind = "reject" \/ ~outcome.ok

\* C6: when the fetch of a submit fails, the handler appends nothing: the
\* transcript and the stored history stay as the submit left them.
C6_FailureAppendsNothing ==
  [][\/ messages' = messages /\ localStorage' = localStorage
     \/ ~\E id \in 1..Len(handlers), outcome \in FetchOutcomes, now \in Timestamps,
            writeOk \in BOOLEAN :
          Fails(outcome) /\ Receive(id, outcome, now, writeOk)]_vars

\* A request answered with status 500 left the user message last.
C6_Witness ==
  /\ Len(handlers) = 1
  /\ handlers[1].awaiting = "none"
  /\ handlers[1].loadingBubble.textContent =
       Str(<<"Error:", " ", "Worker", " ", "error:", " ", "500", " ",
             "Internal", " ", "Server", " ", "Error">>)
  /\ Len(messages) = 2
  /\ HasRole(messages[2], "user")

\* A global is configured: defined, not empty and not the placeholder.
IsSet(x, placeholder) == x \notin {Undefined, Str(<<>>), Str(placeholder)}

\* A step of the submit handler on input that is not blank.
SubmitStep ==
  \E value \in Inputs, now \in Timestamps, writeOk \in BOOLEAN :
    Trim(value) # <<>> /\ Submit(value, now, writeOk)

\* The step issues exactly one request, to url.
OneRequestTo(url) ==
  /\ Len(fetches') = Len(fetches) + 1
  /\ SubSeq(fetches', 1, Len(fetches)) = fetches
  /\ fetches'[Len(fetches')].url = url

\* C7: a submit sends exactly one request to the relay when the relay URL
\* is configured; otherwise exactly one request to the direct API when the
\* key is configured; otherwise it sends no request, appends no assistant
\* message and shows the configuration message.
C7_EndpointSelection ==
  [][SubmitStep =>
       IF IsSet(WORKER_URL, WorkerUrlPlaceholder)
       THEN OneRequestTo(WORKER_URL.s)
       ELSE IF IsSet(OPENAI_API_KEY, ApiKeyPlaceholder)
       THEN OneRequestTo(OpenAiUrl)
       ELSE /\ fetches' = fetches
            /\ Appends("user")
            /\ handlers'[Len(handlers')].awaiting = "none"
            /\ handlers'[Len(handlers')].loadingBubble =
                 [loading |-> FALSE, textContent |-> Str(ConfigMissingText)]]_vars

\* Relay and key are both configured and the one request in flight goes to
\* the relay.
C7_Witness ==
  /\ IsSet(WORKER_URL, WorkerUrlPlaceholder)
  /\ IsSet(OPENAI_API_KEY, ApiKeyPlaceholder)
  /\ Len(fetches) = 1
  /\ fetches[1].url = WORKER_URL.s

\* C8: the body of the request a submit sends holds one entry per message
\* of the transcript, in the same order, each with exactly the fields role
\* and content and the values the message has for them.
C8_PayloadRoleAndContent ==
  [][Len(fetches') > Len(fetches) =>
       LET sent == JsonParse(fetches'[Len(fetches')].body).v
           entries == sent.f.messages.e
       IN /\ Len(entries) = Len(messages')
          /\ \A i \in 1..Len(entries) :
               /\ DOMAIN entries[i].f = {"role", "content"}
               /\ entries[i].f.role = messages'[i].f.role
               /\ entries[i].f.content = messages'[i].f.content]_vars

\* The request in flight was built from a transcript that holds the system
\* message, an earlier user message with its timestamp and the new one.
C8_Witness ==
  /\ Len(fetches) = 1
  /\ Len(messages) = 3
  /\ "timestamp" \in DOMAIN messages[2].f
  /\ Len(JsonParse(fetches[1].body).v.f.messages.e) = 3

\* choices[0].message.content of a response body, Undefined when the path
\* does not lead to a value.
ContentOf(data) ==
  IF /\ data.t = "object"
     /\ "choices" \in DOMAIN data.f
     /\ data.f.choices.t = "array"
     /\ Len(data.f.choices.e) >= 1
     /\ data.f.choices.e[1].t = "object"
     /\ "message" \in DOMAIN data.f.choices.e[1].f
     /\ data.f.choices.e[1].f.message.t = "object"
     /\ "content" \in DOMAIN data.f.choices.e[1].f.message.f
  THEN data.f.choices.e[1].f.message.f.content
  ELSE Undefined

\* The content is a value JavaScript takes for false: absent, null, the
\* empty string, 0 or false.
IsFalsy(c) ==
  \/ c.t \in {"undefined", "null"}
  \/ c.t = "string" /\ c.s = <<>>
  \/ c.t = "number" /\ c.n = 0
  \/ c.t = "boolean" /\ ~c.b

\* The success responses whose body is JSON, and the value each has at
\* choices[0].message.content.
JsonResponses ==
  { o \in FetchOutcomes : o.kind = "response" /\ o.ok /\ ~JsonParse(o.body).threw }

ResponseContent == [o \in JsonResponses |-> ContentOf(JsonParse(o.body).v)]

\* The step is the handler of the success response outcome, which appends
\* an assistant message.
RepliesTo(outcome) ==
  /\ Appends("assistant")
  /\ \E id \in 1..Len(handlers), now \in Timestamps, writeOk \in BOOLEAN :
       /\ handlers'[id].awaiting # handlers[id].awaiting
       /\ Receive(id, outcome, now, writeOk)

AppendedContent == messages'[Len(messages')].f.content

\* C9 as stated: the reply appended is choices[0].message.content whenever
\* the field path is present, and the fallback string exactly when it is
\* absent.
C9_ReplyIsContentWhenPresent ==
  [][\/ ~Appends("assistant")
     \/ \A outcome \in JsonResponses :
          LET content == ResponseContent[outcome]
              present == content.t \notin {"undefined", "null"}
          IN \/ /\ present => AppendedContent = content
                /\ AppendedContent = Str(FallbackReply) <=> ~present
             \/ ~RepliesTo(outcome)]_vars

\* C9 amended: the reply appended is choices[0].message.content whenever
\* that value is present and not falsy, and the fallback string exactly when
\* the path is absent or its value is falsy (null, the empty string).
C9_ReplyIsContentWhenTruthy ==
  [][\/ ~Appends("assistant")
     \/ \A outcome \in JsonResponses :
          LET content == ResponseContent[outcome]
          IN \/ /\ ~IsFalsy(content) => AppendedContent = content
                /\ AppendedContent = Str(FallbackReply) <=> IsFalsy(content)
             \/ ~RepliesTo(outcome)]_vars

\* Both a reply taken from the response and the fallback string were
\* appended.
C9_Witness ==
  /\ Len(messages) = 4
  /\ HasRole(messages[3], "assistant")
  /\ HasRole(messages[4], "assistant")
  /\ messages[3].f.content = Str(<<"Use", " ", "X">>)
  /\ messages[4].f.content = Str(FallbackReply)

\* The bubble no longer shows the loading indicator.
IsReplaced(bubble) ==
  /\ ~bubble.loading
  /\ bubble.textContent # Str(ThinkingText)

\* C10: a handler whose request has settled has replaced its loading
\* bubble by the reply, an error or the configuration message, and the
\* submit handler stays registered and takes a further submit.
C10_SettledAndStillAccepting ==
  /\ \A id \in 1..Len(handlers) :
       handlers[id].awaiting = "none" => IsReplaced(handlers[id].loadingBubble)
  /\ scriptRunning
  /\ (Len(handlers) < MaxRequests /\ Len(messages) < MaxMessages)
       => ENABLED (\E value \in Inputs, now \in Timestamps, writeOk \in BOOLEAN :
                     Submit(value, now, writeOk))

\* After a request failed, a second request of the same page session is in
\* flight.
C10_Witness ==
  /\ Len(handlers) = 2
  /\ handlers[1].awaiting = "none"
  /\ handlers[1].loadingBubble.textContent.s[1] = "Error:"
  /\ handlers[2].awaiting # "none"
  /\ Len(fetches) = 1

(***************************************************************************)
(* C11                                                                     *)
(***************************************************************************)
\* The step leaves at the history key something else than the transcript
\* it ends with: a write of this step, if there was one, failed.
WriteFailed ==
  /\ messages' # messages
  /\ localStorage' # saveHistory(messages', localStorage, TRUE)

\* The step starts a submit handler.
StartsHandler == Len(handlers') = Len(handlers) + 1

\* The step is the settling of a request with a reply.
SettlesWithReply ==
  /\ Len(fetches') < Len(fetches)
  /\ \E id \in 1..Len(handlers), outcome \in FetchOutcomes, now \in Timestamps,
        writeOk \in BOOLEAN :
       /\ handlers[id].awaiting # "none"
       /\ ~Settled[handlers[id].awaiting][outcome].threw
       /\ Receive(id, outcome, now, writeOk)

\* C11: when the write of saveHistory fails, the submit still appends the
\* user message and sends its request, the reply is still appended, and
\* the stored history is left as it was.
C11_WriteFailureSwallowed ==
  [][/\ (WriteFailed /\ StartsHandler)
          => /\ Appends("user")
             /\ localStorage' = localStorage
             /\ Endpoint # "none" => Len(fetches') = Len(fetches) + 1
     /\ (WriteFailed /\ SettlesWithReply)
          => /\ Appends("assistant")
             /\ localStorage' = localStorage]_vars

\* A user message and its reply are in the transcript while the history
\* key holds nothing: both writes failed.
C11_Witness ==
  /\ Len(messages) = 3
  /\ HasRole(messages[2], "user")
  /\ HasRole(messages[3], "assistant")
  /\ handlers # <<>>
  /\ STORAGE_KEY \notin DOMAIN localStorage

(***************************************************************************)
(* C12                                                                     *)
(***************************************************************************)
\* C12: in every reachable state of a page with an endpoint configured,
\* the messages after the system message alternate user, assistant, user,
\* assistant, also after a failed request and with two requests pending.
C12_Alternates ==
  Endpoint # "none" =>
    \A i \in 2..Len(messages) :
      HasRole(messages[i], IF i % 2 = 0 THEN "user" ELSE "assistant")

(***************************************************************************)
(* C18                                                                     *)
(***************************************************************************)
\* The array read back from the history key, <<>> when there is none.
StoredHistory(ls) ==
  IF STORAGE_KEY \notin DOMAIN ls THEN <<>>
  ELSE LET parsed == JsonParse(ls[STORAGE_KEY])
       IN IF ~parsed.threw /\ parsed.v.t = "array" THEN parsed.v.e ELSE <<>>

\* The messages in the body of a request.
SentMessages(request) == JsonParse(request.body).v.f.messages.e

\* The stored history holds the user message request was sent for: at the
\* place of the message sent last, not counting the system message, it has
\* a user message with the content sent last.
StoredHolds(ls, request) ==
  LET stored == StoredHistory(ls)
      sent == SentMessages(request)
  IN /\ Len(sent) > 1
     /\ Len(stored) >= Len(sent) - 1
     /\ HasRole(stored[Len(sent) - 1], "user")
     /\ Get(stored[Len(sent) - 1], "content") = Get(sent[Len(sent)], "content")

\* The stored history ends with the user message request was sent for.
StoredEndsWith(ls, request) ==
  /\ StoredHolds(ls, request)
  /\ Len(StoredHistory(ls)) = Len(SentMessages(request)) - 1

\* A submit on input that is not blank, whose write to storage succeeds.
SubmitWrites ==
  \E value \in Inputs, now \in Timestamps :
    Trim(value) # <<>> /\ Submit(value, now, TRUE)

\* A submit that sends a request and whose write succeeded leaves the
\* user message appended, sent last in the request and last in the stored
\* history, and loading the page from that storage gives the transcript
\* ending with the user message.
StoredAtDispatch ==
  (Len(fetches') > Len(fetches) /\ SubmitWrites)
    => /\ Appends("user")
       /\ StoredEndsWith(localStorage', fetches'[Len(fetches')])
       /\ StoredHistory(localStorage')[Len(messages') - 1] = messages'[Len(messages')]
       /\ Restore(localStorage').messages = messages'
       /\ ~Restore(localStorage').threw

\* A request that stays in flight over the step keeps its user message in
\* the stored history.
StaysStored ==
  \A i \in 1..Len(fetches) :
    (/\ \E j \in 1..Len(fetches') : fetches'[j].handler = fetches[i].handler
     /\ StoredHolds(localStorage, fetches[i]))
      => StoredHolds(localStorage', fetches[i])

\* C18 as stated: when the write succeeded, the stored history holds the
\* user message of a request from its dispatch and at every moment the
\* request is in flight.
C18_StoredWhileInFlight == [][StoredAtDispatch /\ StaysStored]_vars

\* C18: on a submit that is not blank the user message is appended and
\* written before the request is sent: when the write succeeded, at the
\* moment of dispatch the stored history ends with that user message and
\* a reload restores the transcript ending with it, without a reply.
C18_StoredAtDispatch == [][StoredAtDispatch]_vars

\* One request is in flight and the stored history is the user message
\* it was sent for.
C18_Witness ==
  /\ Len(fetches) = 1
  /\ Len(messages) = 2
  /\ HasRole(messages[2], "user")
  /\ StoredEndsWith(localStorage, fetches[1])
  /\ Restore(localStorage).messages = messages

(***************************************************************************)
(* C19                                                                     *)
(***************************************************************************)
\* The request was pending when clearHistory ran: it was sent with more
\* messages than the transcript holds.  The transcript is made shorter by
\* clearHistory alone, and a reload leaves no request in flight.
SentBeforeClear(request) == Len(SentMessages(request)) > Len(messages)

\* The request is in flight before the step and not after it.
SettlesIn(request) ==
  \A j \in 1..Len(fetches') : fetches'[j].handler # request.handler

\* C19: the settling of a request that was pending when clearHistory ran
\* appends nothing to the cleared transcript and writes nothing to the
\* stored history.
C19_NoReplyAfterClear ==
  [][\A i \in 1..Len(fetches) :
       (SentBeforeClear(fetches[i]) /\ SettlesIn(fetches[i]))
         => messages' = messages /\ localStorage' = localStorage]_vars

(***************************************************************************)
(* Colour math of script.js.  A colour string is a sequence of characters. *)
(* Numbers are integers, NaN, or ratios of two integers.                   *)
(***************************************************************************)
NaN == [t |-> "NaN"]

\* The element of a set of one element.
The(S) == CHOOSE x \in S : TRUE

\* The quotient num / den.
Ratio(num, den) == [t |-> "number", num |-> num, den |-> den]

HexDigits == <<"0", "1", "2", "3", "4", "5", "6", "7", "8", "9",
                "a", "b", "c", "d", "e", "f">>
UpperHexDigits == <<"0", "1", "2", "3", "4", "5", "6", "7", "8", "9",
                     "A", "B", "C", "D", "E", "F">>

\* The value of a character as a hexadecimal digit, -1 when it is none.
HexValue(c) ==
  IF \E i \in 1..16 : HexDigits[i] = c
  THEN (CHOOSE i \in 1..16 : HexDigits[i] = c) - 1
  ELSE IF \E i \in 1..16 : UpperHexDigits[i] = c
  THEN (CHOOSE i \in 1..16 : UpperHexDigits[i] = c) - 1
  ELSE -1

RECURSIVE ParseDigits(_, _, _)
\* The number written by the hexadecimal digits of s from position i up to
\* the first character that is no digit.
ParseDigits(s, i, acc) ==
  IF i > Len(s) \/ HexValue(s[i]) < 0 THEN acc
  ELSE ParseDigits(s, i + 1, acc * 16 + HexValue(s[i]))

\* parseInt(s, 16) for s without sign, 0x prefix or leading whitespace:
\* the leading digits are read, NaN when there is none.
parseInt16(s) ==
  IF s = <<>> \/ HexValue(s[1]) < 0 THEN NaN ELSE Num(ParseDigits(s, 1, 0))

\* hex.replace('#', ''): the first # is removed.
RemoveHash(s) ==
  IF \E i \in 1..Len(s) : s[i] = "#"
  THEN LET i == CHOOSE i \in 1..Len(s) : s[i] = "#" /\ \A j \in 1..(i - 1) : s[j] # "#"
       IN SubSeq(s, 1, i - 1) \o SubSeq(s, i + 1, Len(s))
  ELSE s

\* (n >> shift) & 255 for n below 2^31; NaN is taken as 0.
ByteAt(n, shift) == IF n = NaN THEN Num(0) ELSE Num((n.n \div shift) % 256)

\* hexToRgb(hex)
hexToRgb(hex) ==
  The({ IF Len(h) = 3
        THEN <<parseInt16(<<h[1], h[1]>>), parseInt16(<<h[2], h[2]>>),
               parseInt16(<<h[3], h[3]>>)>>
        ELSE The({ <<ByteAt(bigint, 65536), ByteAt(bigint, 256), ByteAt(bigint, 1)>> :
                     bigint \in {parseInt16(h)} }) :
          h \in {Trim(RemoveHash(hex))} })

\* c <= 0.03928 ? c/12.92 : Math.pow((c+0.055)/1.055, 2.4) for c = v/255,
\* v = 0..255, in units of 1/10000, rounded.
LinearChannel ==
  <<0, 3, 6, 9, 12, 15, 18, 21, 24, 27, 30, 33, 37, 40, 44, 48,
     52, 56, 60, 65, 70, 75, 80, 86, 91, 97, 103, 110, 116, 123, 130, 137,
     144, 152, 160, 168, 176, 185, 194, 203, 212, 222, 232, 242, 252, 262, 273, 284,
     296, 307, 319, 331, 343, 356, 369, 382, 395, 409, 423, 437, 452, 467, 482, 497,
     513, 529, 545, 561, 578, 595, 612, 630, 648, 666, 685, 704, 723, 742, 762, 782,
     802, 823, 844, 865, 887, 908, 931, 953, 976, 999, 1022, 1046, 1070, 1095, 1119, 1144,
     1170, 1195, 1221, 1248, 1274, 1301, 1329, 1356, 1384, 1413, 1441, 1470, 1500, 1529, 1559, 1590,
     1620, 1651, 1683, 1714, 1746, 1779, 1812, 1845, 1878, 1912, 1946, 1981, 2016, 2051, 2086, 2122,
     2159, 2195, 2232, 2270, 2307, 2346, 2384, 2423, 2462, 2502, 2542, 2582, 2623, 2664, 2705, 2747,
     2789, 2831, 2874, 2918, 2961, 3005, 3050, 3095, 3140, 3185, 3231, 3278, 3325, 3372, 3419, 3467,
     3515, 3564, 3613, 3663, 3712, 3763, 3813, 3864, 3916, 3968, 4020, 4072, 4125, 4179, 4233, 4287,
     4342, 4397, 4452, 4508, 4564, 4621, 4678, 4735, 4793, 4851, 4910, 4969, 5029, 5089, 5149, 5210,
     5271, 5333, 5395, 5457, 5520, 5583, 5647, 5711, 5776, 5841, 5906, 5972, 6038, 6105, 6172, 6240,
     6308, 6376, 6445, 6514, 6584, 6654, 6724, 6795, 6867, 6939, 7011, 7084, 7157, 7231, 7305, 7379,
     7454, 7529, 7605, 7682, 7758, 7835, 7913, 7991, 8070, 8148, 8228, 8308, 8388, 8469, 8550, 8632,
     8714, 8796, 8879, 8963, 9047, 9131, 9216, 9301, 9387, 9473, 9560, 9647, 9734, 9823, 9911, 10000>>

\* relativeLuminance(rgb), in units of 1/100000000.
relativeLuminance(rgb) ==
  IF \E i \in 1..3 : rgb[i] = NaN THEN NaN
  ELSE Num(2126 * LinearChannel[rgb[1].n + 1] + 7152 * LinearChannel[rgb[2].n + 1]
           + 722 * LinearChannel[rgb[3].n + 1])

\* contrastRatio(hexA, hexB): hex.replace throws for an argument that is
\* no string, which the catch block turns into null.
contrastRatio(hexA, hexB) ==
  IF hexA.t # "string" \/ hexB.t # "string" THEN Null
  ELSE The({ IF a = NaN \/ b = NaN THEN NaN
             ELSE Ratio((IF a.n >= b.n THEN a.n ELSE b.n) + 5000000,
                        (IF a.n >= b.n THEN b.n ELSE a.n) + 5000000) :
               a \in {relativeLuminance(The({hexToRgb(hexA.s)}))},
               b \in {relativeLuminance(The({hexToRgb(hexB.s)}))} })

\* v.toString(16).padStart(2, '0')
HexOfChannel(v) ==
  IF v = NaN THEN <<"N", "a", "N">>
  ELSE IF v.n < 16 THEN <<"0", HexDigits[v.n + 1]>>
  ELSE <<HexDigits[(v.n \div 16) + 1], HexDigits[(v.n % 16) + 1]>>

\* rgbToHex([r, g, b])
rgbToHex(rgb) ==
  <<"#">> \o HexOfChannel(rgb[1]) \o HexOfChannel(rgb[2]) \o HexOfChannel(rgb[3])

\* clamp(v) for v = x / 100: Math.round rounds a half up.
clamp(x) ==
  LET rounded == (x + 50) \div 100
  IN Num(IF rounded < 0 THEN 0 ELSE IF rounded > 255 THEN 255 ELSE rounded)

\* clamp(a + (b - a) * t) for t in hundredths.
LerpChannel(a, b, t) ==
  IF a = NaN \/ b = NaN THEN NaN ELSE clamp(a.n * 100 + (b.n - a.n) * t)

\* lerpColor(hexA, hexB, t) for t in hundredths.
lerpColor(hexA, hexB, t) ==
  The({ rgbToHex(The({<<LerpChannel(a[1], b[1], t), LerpChannel(a[2], b[2], t),
                        LerpChannel(a[3], b[3], t)>>})) :
          a \in {hexToRgb(hexA)}, b \in {hexToRgb(hexB)} })

Black == <<"#", "0", "0", "0", "0", "0", "0">>

\* darkenTowardsBlack moving toward white.
darkenTowardsBlack_TowardsWhite(hex, step) ==
  lerpColor(hex, <<"#", "f", "f", "f", "f", "f", "f">>, step)

\* darkenTowardsBlack(hex, step)
darkenTowardsBlack(hex, step) == lerpColor(hex, Black, step)

(***************************************************************************)
(* autoFixContrast.                                                        *)
(***************************************************************************)
\* The values the stylesheet gives the custom properties under each theme:
\* the colours of the classic theme, a grey text on light backgrounds, a
\* dark text on black, values that are no hex colours, and no value.
Themes == {"classic", "soft", "night", "named", "unset"}

Sheet(t) ==
  CASE t = "classic" ->
         [text |-> <<"#", "2", "2", "2", "2", "2", "2">>,
          muted |-> <<"#", "f", "7", "f", "4", "e", "f">>,
          assistant |-> <<"#", "f", "3", "f", "1", "e", "e">>]
    [] t = "soft" ->
         [text |-> <<"#", "9", "9", "9">>,
          muted |-> <<"#", "f", "7", "f", "4", "e", "f">>,
          assistant |-> <<"#", "9", "9", "9", "9", "9", "9">>]
    [] t = "night" ->
         [text |-> <<"#", "4", "4", "4", "4", "4", "4">>,
          muted |-> <<"#", "0", "0", "0">>,
          assistant |-> <<" ", "#", "F", "F", "F", "F", "F", "F">>]
    [] t = "named" ->
         [text |-> <<"r", "e", "d">>,
          muted |-> <<"w", "h", "i", "t", "e">>,
          assistant |-> <<"#", "2", "2", "2", "2", "2">>]
    [] OTHER -> [text |-> <<>>, muted |-> <<>>, assistant |-> <<>>]

\* The pairs autoFixContrast goes through.
pairs ==
  <<[fgVar |-> "--text", bgVar |-> "--brand-muted"],
    [fgVar |-> "--text", bgVar |-> "--assistant-bg"]>>

\* getComputedStyle(documentElement).getPropertyValue(name): the value set
\* on the element, else the value of the stylesheet.
getPropertyValue(style, t, name) ==
  IF name \in DOMAIN style THEN style[name]
  ELSE CASE name = "--text" -> Sheet(t).text
         [] name = "--brand-muted" -> Sheet(t).muted
         [] name = "--assistant-bg" -> Sheet(t).assistant
         [] OTHER -> <<>>

\* (value || '').trim() || fallback
TrimOr(value, fallback) == IF Trim(value) # <<>> THEN Trim(value) ELSE fallback

\* target = 4.5
target == Ratio(9, 2)

MaxAttempts == 24

\* a < b for two quotients with positive denominators.
Less(a, b) == a.num * b.den < b.num * a.den

\* contrastRatio(...) || 0
OrZero(v) == IF v.t = "number" /\ v.num # 0 THEN v ELSE Ratio(0, 1)

\* Math.min(1, 0.06 + attempts*0.02), in hundredths.
Step(attempts) == IF 6 + attempts * 2 > 100 THEN 100 ELSE 6 + attempts * 2

\* The state of a call at the head of the callback for pair number pair.
AtPair(pair, changed, returned) ==
  [pc |-> "pair", pair |-> pair, fg |-> <<>>, bg |-> <<>>, ratio |-> Ratio(0, 1),
   attempts |-> 0, changed |-> changed, returned |-> returned]

\* The call enters and comes to the first pair.
Enter == AtPair(1, FALSE, Undefined)

\* A call of contrastRatio and what it returned.
Returned(hexA, hexB) ==
  [hexA |-> hexA, hexB |-> hexB, value |-> contrastRatio(Str(hexA), Str(hexB))]

\* The head of the callback of forEach: fg, bg and ratio are read.
ReadPair ==
  /\ autoFix.pc = "pair"
  /\ \E p \in {pairs[autoFix.pair]} :
     \E fg \in {TrimOr(getPropertyValue(rootStyle, theme, p.fgVar),
                        <<"#", "2", "2", "2", "2", "2", "2">>)},
        bg \in {TrimOr(getPropertyValue(rootStyle, theme, p.bgVar),
                        <<"#", "f", "f", "f", "f", "f", "f">>)} :
     \E returned \in {Returned(fg, bg)} :
       autoFix' = [autoFix EXCEPT !.pc = "while", !.fg = fg, !.bg = bg,
                                  !.ratio = OrZero(returned.value),
                                  !.attempts = 0,
                                  !.returned = returned]
  /\ UNCHANGED <<theme, rootStyle, localStorage, relay>>
  /\ UNCHANGED chatVars

\* The loop goes on however many attempts were made.
LoopTest_NoBudget(a) == Less(a.ratio, target)

\* ratio < target && attempts < 24
LoopTest(a) == Less(a.ratio, target) /\ a.attempts < MaxAttempts

\* The body of the while loop.
Iterate ==
  /\ autoFix.pc = "while"
  /\ LoopTest(autoFix)
  /\ \E p \in {pairs[autoFix.pair]} :
     \E fg \in {darkenTowardsBlack(autoFix.fg, Step(autoFix.attempts))} :
     \E style \in {(p.fgVar :> fg) @@ rootStyle} :
     \E newFg \in {TrimOr(getPropertyValue(style, theme, p.fgVar), fg)},
        newBg \in {TrimOr(getPropertyValue(style, theme, p.bgVar), autoFix.bg)} :
     \E returned \in {Returned(newFg, newBg)} :
       /\ rootStyle' = style
       /\ autoFix' = [autoFix EXCEPT !.fg = fg,
                                     !.ratio = OrZero(returned.value),
                                     !.attempts = autoFix.attempts + 1,
                                     !.changed = TRUE,
                                     !.returned = returned]
  /\ UNCHANGED <<theme, localStorage, relay>>
  /\ UNCHANGED chatVars

\* The loop ends: the next pair, or the end of forEach.
ExitLoop ==
  /\ autoFix.pc = "while"
  /\ ~LoopTest(autoFix)
  /\ autoFix' = IF autoFix.pair < Len(pairs)
                THEN AtPair(autoFix.pair + 1, autoFix.changed, autoFix.returned)
                ELSE [autoFix EXCEPT !.pc = "persist"]
  /\ UNCHANGED <<theme, rootStyle, localStorage, relay>>
  /\ UNCHANGED chatVars

\* The properties collected into adjustments.
AdjustKeys ==
  <<"--text", "--assistant-bg", "--assistant-border", "--user-bg", "--user-text">>

\* adjustments: the values set on the element that are not empty, trimmed.
Adjustments(style) ==
  Obj([k \in {k \in DOMAIN style : \E i \in 1..Len(AdjustKeys) : AdjustKeys[i] = k
                                      /\ style[k] # <<>>}
         |-> Str(Trim(style[k]))])

ADJUST_KEY == "loreal_color_adjusts"

\* The adjustments written whether or not anything changed.
Persisted_Always(changed, style, ls, writeOk) ==
  IF writeOk THEN SetItem(ls, ADJUST_KEY, Stringify(Adjustments(style))) ELSE ls

\* if (changed) { try { ... setItem ... } catch(e){} }: the storage left
\* behind; writeOk is FALSE when setItem throws.
Persisted(changed, style, ls, writeOk) ==
  IF changed /\ writeOk
  THEN SetItem(ls, ADJUST_KEY, Stringify(Adjustments(style)))
  ELSE ls

\* The end of autoFixContrast, from the test of changed to return true.
Persist(writeOk) ==
  /\ autoFix.pc = "persist"
  /\ localStorage' = Persisted(autoFix.changed, rootStyle, localStorage, writeOk)
  /\ autoFix' = [autoFix EXCEPT !.pc = "returned"]
  /\ UNCHANGED <<theme, rootStyle, relay>>
  /\ UNCHANGED chatVars

THEME_KEY == "loreal_theme"

\* A stored text that is a bare word.
RawText(word) == <<[tok |-> "word", s |-> <<word>>]>>

\* The change listeners of themeSelect: the theme is set and stored, and
\* autoFixContrast is called.
ThemeChange(t, writeOk) ==
  /\ autoFix.pc = "returned"
  /\ theme' = t
  /\ localStorage' = IF writeOk THEN SetItem(localStorage, THEME_KEY, RawText(t))
                     ELSE localStorage
  /\ autoFix' = Enter
  /\ UNCHANGED <<rootStyle, relay>>
  /\ UNCHANGED chatVars

\* The page loads on storage that holds nothing, under any theme of the
\* stylesheet, and comes to its call of autoFixContrast.
InitColor ==
  /\ PageLoad(NoProps)
  /\ WORKER_URL = RealWorkerUrl
  /\ OPENAI_API_KEY = Undefined
  /\ theme \in Themes
  /\ rootStyle = NoProps
  /\ autoFix = Enter
  /\ relay = Idle

NextColor ==
  \/ ReadPair
  \/ Iterate
  \/ ExitLoop
  \/ \E writeOk \in BOOLEAN : Persist(writeOk)
  \/ \E t \in Themes, writeOk \in BOOLEAN : ThemeChange(t, writeOk)

SpecColor == InitColor /\ [][NextColor]_vars

\* A call of autoFixContrast runs to its end once entered: the script is
\* not interrupted.
AutoFixStep == ReadPair \/ Iterate \/ ExitLoop \/ \E writeOk \in BOOLEAN : Persist(writeOk)

SpecColorFair == SpecColor /\ WF_vars(AutoFixStep)

(***************************************************************************)
(* C13                                                                     *)
(***************************************************************************)
\* The step leaves the while loop of a pair.
LeavesLoop == autoFix.pc = "while" /\ autoFix'.pc # "while"

\* C13: a call of autoFixContrast comes to its return; a pair is darkened
\* at most 24 times; the loop of a pair is left only with the ratio at the
\* target or after the 24th attempt; the call returns also when the target
\* was not met.
C13_TerminatesWithin24 ==
  /\ [](autoFix.attempts <= MaxAttempts)
  /\ [][LeavesLoop => (~Less(autoFix.ratio, target) \/ autoFix.attempts = MaxAttempts)]_vars
  /\ [][autoFix.pc = "persist" => autoFix'.pc = "returned"]_vars
  /\ [](autoFix.pc # "returned" => <>(autoFix.pc = "returned"))

\* The call returned after 24 attempts on the last pair that left the
\* ratio below the target.
C13_Witness ==
  /\ autoFix.pc = "returned"
  /\ autoFix.attempts = MaxAttempts
  /\ Less(autoFix.ratio, target)

(***************************************************************************)
(* C14                                                                     *)
(***************************************************************************)
\* The channels of a colour are numbers.
HasChannels(hex) == \A i \in 1..3 : hexToRgb(hex)[i] # NaN

\* The step is an iteration of the while loop.
Iteration == autoFix.pc = "while" /\ autoFix'.pc = "while"

\* C14: an iteration on a foreground whose channels are numbers darkens it
\* by step = min(1, 0.06 + attempts*0.02): each channel stays in 0..255
\* and does not increase, and neither does the luminance.
C14_OnlyTowardsBlack ==
  [][(Iteration /\ HasChannels(autoFix.fg))
       => /\ autoFix'.fg = darkenTowardsBlack(autoFix.fg, Step(autoFix.attempts))
          /\ rootStyle'[pairs[autoFix.pair].fgVar] = autoFix'.fg
          /\ \A i \in 1..3 :
               /\ hexToRgb(autoFix'.fg)[i] # NaN
               /\ hexToRgb(autoFix'.fg)[i].n \in 0..255
               /\ hexToRgb(autoFix'.fg)[i].n <= hexToRgb(autoFix.fg)[i].n
          /\ relativeLuminance(hexToRgb(autoFix'.fg)).n
               <= relativeLuminance(hexToRgb(autoFix.fg)).n]_vars

\* A grey foreground was darkened three times and is not black yet.
C14_Witness ==
  /\ autoFix.pc = "while"
  /\ autoFix.attempts = 3
  /\ HasChannels(autoFix.fg)
  /\ hexToRgb(autoFix.fg)[1].n \in 1..254

(***************************************************************************)
(* C15                                                                     *)
(***************************************************************************)
\* What the record of adjustments holds.
Adjusts(ls) == GetItem(ls, ADJUST_KEY)

\* C15: changed is set by an iteration and by nothing else; while it is
\* not set the call leaves the properties of the element and the record of
\* adjustments as they are; at its end the call writes the record when
\* changed is set, and only then.
C15_WritesIffChanged ==
  [][/\ (~autoFix.changed /\ autoFix'.changed) => Iteration
     /\ Iteration => autoFix'.changed
     /\ (autoFix.pc # "returned" /\ ~autoFix'.changed)
          => rootStyle' = rootStyle /\ Adjusts(localStorage') = Adjusts(localStorage)
     /\ Persist(TRUE)
          => IF autoFix.changed
             THEN localStorage'[ADJUST_KEY] = Stringify(Adjustments(rootStyle))
             ELSE localStorage' = localStorage]_vars

\* A call that darkened nothing returned and left the record an earlier
\* call wrote.
C15_Witness ==
  /\ autoFix.pc = "returned"
  /\ ~autoFix.changed
  /\ ADJUST_KEY \in DOMAIN localStorage
  /\ "--text" \in DOMAIN rootStyle

(***************************************************************************)
(* C17                                                                     *)
(***************************************************************************)
\* A hex colour of 3 or 6 digits, with or without the leading #.
ValidHex(hex) ==
  LET h == Trim(RemoveHash(hex))
  IN Len(h) \in {3, 6} /\ \A i \in 1..Len(h) : HexValue(h[i]) >= 0

\* C17: contrastRatio returns a number only when both arguments are hex
\* colours of 3 or 6 digits; when one is not, it returns a value that is
\* no ratio (null, or NaN at the least).
C17_NoRatioWhenUnparseable ==
  autoFix.returned # Undefined =>
    IF ValidHex(autoFix.returned.hexA) /\ ValidHex(autoFix.returned.hexB)
    THEN autoFix.returned.value.t = "number"
    ELSE autoFix.returned.value \in {Null, NaN}

(***************************************************************************)
(* The Worker (worker/index.js).                                           *)
(***************************************************************************)
corsHeaders ==
  [AccessControlAllowOrigin |-> "*",
   AccessControlAllowMethods |-> "GET, POST, OPTIONS",
   AccessControlAllowHeaders |-> "Content-Type",
   ContentType |-> "application/json"]

\* new Response(body, { status, headers: corsHeaders }); the status is 200
\* when none is given.
Response(status, body) == [status |-> status, body |-> body, headers |-> corsHeaders]

\* The fetch call of the Worker: apiUrl and the options.
UpstreamCall(apiKey, userInput) ==
  [url |-> OpenAiUrl, method |-> "POST",
   authorization |-> <<"Bearer", " ">> \o apiKey.s,
   body |-> Stringify(Obj([model |-> Str(<<"gpt-4o">>),
                           messages |-> Get(userInput, "messages"),
                           max_completion_tokens |-> Num(300)]))]

\* The Worker forwarding without the test of the key.
Entry_NoKeyTest(request, apiKey) ==
  IF request.method = "OPTIONS"
  THEN [pc |-> "responded", upstream |-> <<>>, threw |-> FALSE,
        response |-> Response(200, <<>>)]
  ELSE LET userInput == JsonParse(request.body)
       IN IF userInput.threw
          THEN [pc |-> "responded", upstream |-> <<>>, threw |-> FALSE,
                response |-> Response(400,
                  Stringify(Obj([error |-> Str(<<"Invalid", " ", "JSON", " ", "body">>)])))]
          ELSE IF userInput.v.t \in {"null", "undefined"}
          THEN [pc |-> "responded", upstream |-> <<>>, threw |-> TRUE,
                response |-> Undefined]
          ELSE [pc |-> "upstream",
                upstream |-> <<UpstreamCall(Str(<<>>), userInput.v)>>,
                threw |-> FALSE, response |-> Undefined]

\* fetch(request, env) up to its await of the upstream fetch: the response
\* returned, or the call made upstream.  Reading userInput.messages of null
\* throws a TypeError that nothing catches.
Entry(request, apiKey) ==
  IF request.method = "OPTIONS"
  THEN [pc |-> "responded", upstream |-> <<>>, threw |-> FALSE,
        response |-> Response(200, <<>>)]
  ELSE IF ~Truthy(apiKey)
  THEN [pc |-> "responded", upstream |-> <<>>, threw |-> FALSE,
        response |-> Response(500,
          Stringify(Obj([error |-> Str(<<"OPENAI_API_KEY", " ", "not", " ", "configured",
                                         " ", "in", " ", "Worker", " ", "environment">>)])))]
  ELSE LET userInput == JsonParse(request.body)
       IN IF userInput.threw
          THEN [pc |-> "responded", upstream |-> <<>>, threw |-> FALSE,
                response |-> Response(400,
                  Stringify(Obj([error |-> Str(<<"Invalid", " ", "JSON", " ", "body">>)])))]
          ELSE IF userInput.v.t \in {"null", "undefined"}
          THEN [pc |-> "responded", upstream |-> <<>>, threw |-> TRUE,
                response |-> Undefined]
          ELSE [pc |-> "upstream", upstream |-> <<UpstreamCall(apiKey, userInput.v)>>,
                threw |-> FALSE, response |-> Undefined]

\* The response with the status of the upstream response.
Forwarded_WithStatus(answer) ==
  IF answer.kind = "reject" \/ JsonParse(answer.body).threw
  THEN [threw |-> TRUE, response |-> Undefined]
  ELSE [threw |-> FALSE,
        response |-> Response(answer.status, Stringify(JsonParse(answer.body).v))]

\* fetch(request, env) from the await of the upstream fetch: a rejected
\* fetch and a body that is no JSON throw; else the body is returned with
\* the default status.
Forwarded(answer) ==
  IF answer.kind = "reject" \/ JsonParse(answer.body).threw
  THEN [threw |-> TRUE, response |-> Undefined]
  ELSE [threw |-> FALSE,
        response |-> Response(200, Stringify(JsonParse(answer.body).v))]

\* env.OPENAI_API_KEY: no secret, an empty one, a key.
WorkerKeys == { Undefined, Str(<<>>), RealApiKey }

\* The Worker between two requests, with its environment.
RelayIdle(apiKey) == [pc |-> "idle", apiKey |-> apiKey]

\* Requests that reach the Worker from elsewhere than the submit handler:
\* the preflight of the browser, a GET, a POST of text that is no JSON, a
\* POST of null, a POST of an object without messages.
OtherRequests ==
  { [handler |-> 0, url |-> RealWorkerUrl.s, method |-> "OPTIONS",
     authorization |-> <<>>, body |-> <<>>],
    [handler |-> 0, url |-> RealWorkerUrl.s, method |-> "GET",
     authorization |-> <<>>, body |-> <<>>],
    [handler |-> 0, url |-> RealWorkerUrl.s, method |-> "POST",
     authorization |-> <<>>, body |-> <<Punct("<")>>],
    [handler |-> 0, url |-> RealWorkerUrl.s, method |-> "POST",
     authorization |-> <<>>, body |-> Stringify(Null)],
    [handler |-> 0, url |-> RealWorkerUrl.s, method |-> "POST",
     authorization |-> <<>>, body |-> Stringify(Obj(NoProps))] }

\* What the upstream fetch of the Worker settles with: a completion, an
\* error with a JSON body, an error with a body that is no JSON, a
\* rejection.
UpstreamAnswers ==
  { [kind |-> "response", status |-> 200,
     body |-> Stringify(Completion(Str(<<"Use", " ", "X">>)))],
    [kind |-> "response", status |-> 401,
     body |-> Stringify(Obj([error |->
                Obj([message |-> Str(<<"Incorrect", " ", "API", " ", "key">>)])]))],
    [kind |-> "response", status |-> 503, body |-> <<Punct("<")>>],
    [kind |-> "reject", status |-> 0, body |-> <<>>] }

\* No upstream fetch has settled.
NoAnswer == [kind |-> "none", status |-> 0, body |-> <<>>]

\* The handlers whose fetch is in flight.
Pending == { fetches[i].handler : i \in 1..Len(fetches) }

\* The Worker has no request of the page in hand.
RelayFree ==
  \/ relay.pc = "idle"
  \/ relay.pc = "responded" /\ relay.request.handler \notin Pending

\* The Worker receives request and runs to its first await or to its return.
Invoke(request) ==
  /\ RelayFree
  /\ \/ request \in OtherRequests
     \/ fetches # <<>> /\ request = Head(fetches)
  /\ LET e == Entry(request, relay.apiKey)
     IN relay' = [pc |-> e.pc, apiKey |-> relay.apiKey, request |-> request,
                  upstream |-> e.upstream, threw |-> e.threw,
                  response |-> e.response, answer |-> NoAnswer]
  /\ UNCHANGED <<messages, localStorage, handlers, fetches, WORKER_URL,
                 OPENAI_API_KEY, scriptRunning, theme, rootStyle, autoFix>>

\* The upstream fetch settles with answer and the Worker runs to its end.
UpstreamSettles(answer) ==
  /\ relay.pc = "upstream"
  /\ LET f == Forwarded(answer)
     IN relay' = [relay EXCEPT !.pc = "responded", !.threw = f.threw,
                               !.response = f.response, !.answer = answer]
  /\ UNCHANGED <<messages, localStorage, handlers, fetches, WORKER_URL,
                 OPENAI_API_KEY, scriptRunning, theme, rootStyle, autoFix>>

StatusChunks(status) ==
  CASE status = 200 -> <<"200">>
    [] status = 400 -> <<"400">>
    [] status = 401 -> <<"401">>
    [] status = 500 -> <<"500">>
    [] status = 503 -> <<"503">>

StatusText(status) ==
  CASE status = 200 -> <<"OK">>
    [] status = 400 -> <<"Bad", " ", "Request">>
    [] status = 401 -> <<"Unauthorized">>
    [] status = 500 -> <<"Internal", " ", "Server", " ", "Error">>
    [] status = 503 -> <<"Service", " ", "Unavailable">>

\* What the fetch of the page settles with for what the Worker did.  For an
\* exception nothing caught the platform answers 500 without the CORS
\* headers, which the page gets as a response or as a rejection.
ClientSees(r) ==
  IF r.threw
  THEN { [kind |-> "reject", message |-> <<"Failed", " ", "to", " ", "fetch">>],
         [kind |-> "response", ok |-> FALSE, status |-> StatusChunks(500),
          statusText |-> StatusText(500), body |-> <<Punct("<")>>] }
  ELSE { [kind |-> "response", ok |-> r.response.status \in 200..299,
          status |-> StatusChunks(r.response.status),
          statusText |-> StatusText(r.response.status),
          body |-> r.response.body] }

\* The response of the Worker reaches the submit handler that awaits it.
Deliver(now, writeOk) ==
  /\ relay.pc = "responded"
  /\ relay.request.handler \in Pending
  /\ \E outcome \in ClientSees(relay) :
       Receive(relay.request.handler, outcome, now, writeOk)

InitRelay ==
  /\ PageLoad(NoProps)
  /\ WORKER_URL = RealWorkerUrl
  /\ OPENAI_API_KEY = Undefined
  /\ theme = "classic"
  /\ rootStyle = NoProps
  /\ autoFix = Idle
  /\ relay \in { RelayIdle(apiKey) : apiKey \in WorkerKeys }

NextRelay ==
  \/ \E value \in Inputs, now \in Timestamps, writeOk \in BOOLEAN :
       Submit(value, now, writeOk)
  \/ \E request \in OtherRequests \cup { fetches[i] : i \in 1..Len(fetches) } :
       Invoke(request)
  \/ \E answer \in UpstreamAnswers : UpstreamSettles(answer)
  \/ \E now \in Timestamps, writeOk \in BOOLEAN : Deliver(now, writeOk)

SpecRelay == InitRelay /\ [][NextRelay]_vars

\* The body of request parses as JSON.
BodyParses(request) == ~JsonParse(request.body).threw

\* The Worker answered r without a call upstream.
AnswersWithout(r, status) ==
  /\ r.pc = "responded"
  /\ r.upstream = <<>>
  /\ ~r.threw
  /\ r.response.status = status
  /\ r.response.headers = corsHeaders

\* C16: the Worker calls upstream only for a request whose method is not
\* OPTIONS, with a credential configured and a body that parses as JSON;
\* else it makes no call and answers an OPTIONS request with an empty body
\* and the CORS headers, a missing credential with 500 and a body that is
\* no JSON with 400.
C16_ForwardsOnlyWhenComplete ==
  relay.pc # "idle" =>
    /\ relay.upstream # <<>> =>
         /\ relay.request.method # "OPTIONS"
         /\ Truthy(relay.apiKey)
         /\ BodyParses(relay.request)
    /\ relay.request.method = "OPTIONS" =>
         AnswersWithout(relay, 200) /\ relay.response.body = <<>>
    /\ relay.request.method # "OPTIONS" /\ ~Truthy(relay.apiKey) =>
         AnswersWithout(relay, 500)
    /\ relay.request.method # "OPTIONS" /\ Truthy(relay.apiKey)
         /\ ~BodyParses(relay.request) =>
         AnswersWithout(relay, 400)

\* The Worker has forwarded a request of the page and awaits upstream.
C16_Witness ==
  /\ relay.pc = "upstream"
  /\ relay.request.handler \in Pending
  /\ Len(relay.upstream) = 1
  /\ relay.upstream[1].authorization = <<"Bearer", " ">> \o RealApiKey.s

\* The step hands to the page the answer of the Worker to an upstream
\* response that is no success.
DeliversFailure ==
  /\ relay.pc = "responded"
  /\ relay.answer.kind = "response"
  /\ relay.answer.status \notin 200..299
  /\ relay.request.handler \in Pending
  /\ relay.request.handler \notin Pending'

\* C20: an upstream response that is no success reaches the page as a
\* failed request: the bubble shows the error and nothing is appended to
\* the transcript or stored.
C20_UpstreamFailureSeenAsFailure ==
  [][DeliversFailure =>
       /\ handlers'[relay.request.handler].loadingBubble.textContent.s[1] = "Error:"
       /\ messages' = messages
       /\ localStorage' = localStorage]_vars

(***************************************************************************)
(* C21                                                                     *)
(***************************************************************************)
\* value is empty or holds nothing but whitespace.
Blank(value) == \A i \in 1..Len(value) : IsWhitespace(value[i])

\* The step is the submit handler run on a blank input field.
BlankSubmit ==
  \E value \in Inputs, now \in Timestamps, writeOk \in BOOLEAN :
    Blank(value) /\ Submit(value, now, writeOk)

\* C21: a submit of an input that is empty or only whitespace leaves the
\* transcript, the stored history and the requests in flight as they were.
C21_BlankSubmitIsNoOp ==
  [][BlankSubmit => UNCHANGED <<messages, localStorage, fetches>>]_vars

\* A blank submit can be made while the transcript holds a user message
\* that is stored and whose request is in flight.
C21_Witness ==
  /\ Len(messages) = 2
  /\ STORAGE_KEY \in DOMAIN localStorage
  /\ Len(fetches) = 1
  /\ \A value \in { v \in Inputs : Blank(v) } :
       ENABLED Submit(value, 1, TRUE)

====
